---- MODULE Spec2Model ----
(***************************************************************************)
(* WordSearchEnv (textarena/envs/single_player/WordSearch/env.py).         *)
(*                                                                         *)
(* The environment object is modelled as a state machine: the fields of    *)
(* the object are the variables, __init__ gives Init, and reset and step   *)
(* are the two actions.  Words are sequences of one-character strings,     *)
(* the grid is a function from 0-based rows to 0-based columns to letters, *)
(* and the placement index (a Python dict, which iterates in insertion     *)
(* order) is a sequence of records in insertion order.                     *)
(***************************************************************************)
EXTENDS Integers, Sequences, FiniteSets, TLC

VARIABLES
    word_list,              \* self.word_list, chosen by __init__
    words,                  \* self.words, the sampled words, longest first
    directions,             \* self.directions, word -> "across" | "down"
    game_board,             \* self.game_board / state.game_state["board"]
    placed_words,           \* self.placed_words, in insertion order
    highlighted_positions,  \* self.highlighted_positions
    correct_words,          \* self.correct_words
    incorrect_attempts,     \* self.incorrect_attempts
    num_incorrect_tries,    \* self.num_incorrect_tries
    winners,                \* state.set_winners was called in this episode
    draw,                   \* state.set_draw was called in this episode
    invalid_move,           \* state.set_invalid_move was called in the last step
    generation              \* the call of _generate_word_search that is followed
                            \* step by step: its position, its local grid and
                            \* what each iteration of its loop did

vars == <<word_list, words, directions, game_board, placed_words,
          highlighted_positions, correct_words, incorrect_attempts,
          num_incorrect_tries, winners, draw, invalid_move, generation>>

(***************************************************************************)
(* Bounds of the model.                                                    *)
(***************************************************************************)
\* self.num_words, as __init__ sets it (env.py:32).
num_words == 5

\* The budget that __init__ stores in self.num_incorrect_tries (20 at
\* env.py:33), scaled down so that an episode can exhaust it.
InitialTries == 2

\* At most this many guesses are recorded in incorrect_attempts per episode.
MaxAttempts == 2

\* The counter is followed down to -MaxOverdraft.
MaxOverdraft == 1

\* At most this many bracketed guesses in one action string.
MaxGuesses == 2

\* The longest first word for which the centre anchor is worked out.
MaxWordLen == 9

(***************************************************************************)
(* Letters, words and dictionaries.                                        *)
(***************************************************************************)
EMPTY == "."

\* string.ascii_uppercase, cut down to the letters the dictionaries use
ascii_uppercase == {"A"}

\* str.upper on one character
LowerLetters == <<"a", "b", "c", "d", "e", "f", "g", "h", "i", "j", "k", "l", "m", "n">>
UpperLetters == <<"A", "B", "C", "D", "E", "F", "G", "H", "I", "J", "K", "L", "M", "N">>

UpperChar(ch) ==
    IF \E i \in 1..Len(LowerLetters) : LowerLetters[i] = ch
    THEN UpperLetters[CHOOSE i \in 1..Len(LowerLetters) : LowerLetters[i] = ch]
    ELSE ch

\* word.upper()
Upper(w) == [i \in 1..Len(w) |-> UpperChar(w[i])]

\* words.words("en-basic") and words.words("en"), as small dictionaries
WordsEnBasic == {<<"a">>, <<"a", "b">>, <<"c", "d", "e">>, <<"f", "g", "h", "i">>,
                 <<"j", "k", "l", "m", "n">>}
WordsEn == {<<"a">>, <<"e">>, <<"a", "b">>, <<"c", "d">>, <<"f", "g", "h">>}

\* A dictionary whose words crowd the grid they get, so that some are dropped
WordsCrowded == {<<"a">>, <<"a", "b">>, <<"c", "d">>, <<"e", "f">>, <<"g", "h">>}

\* A dictionary whose words share letters at several positions, so that they
\* have overlap candidates
WordsCrossing == {<<"a", "b", "c", "d", "e">>, <<"c", "b", "f", "g">>, <<"g", "c", "e">>,
                  <<"e", "b">>, <<"d">>}

(***************************************************************************)
(* Grid primitives.                                                        *)
(***************************************************************************)
\* round(n / 2) as Python 3 computes it: a tie goes to the even neighbour
PyRoundHalf(n) ==
    LET q == n \div 2
    IN  IF n % 2 = 0 THEN q
        ELSE IF q % 2 = 0 THEN q ELSE q + 1

MaxLen(ws) ==
    CHOOSE m \in {Len(ws[i]) : i \in 1..Len(ws)} :
        \A i \in 1..Len(ws) : Len(ws[i]) <= m

\* A sizing that rounds a tie up instead
DetermineInitialGridSize_HalfUp(ws) == (3 * MaxLen(ws) + 1) \div 2

\* round(max_length * 1.5)
DetermineInitialGridSize(ws) == PyRoundHalf(3 * MaxLen(ws))

CreateEmptyGrid(size) == [r \in 0..(size - 1) |-> [c \in 0..(size - 1) |-> EMPTY]]

\* len(grid) and len(grid[0])
GridLen(grid) == Cardinality(DOMAIN grid)
GridWidth(grid) == Cardinality(DOMAIN grid[0])

\* A legality check that looks at the bounds only
CanPlaceWord_BoundsOnly(grid, word, direction, row, col) ==
    IF direction = "across"
    THEN ~(col + Len(word) > GridWidth(grid))
    ELSE ~(row + Len(word) > GridLen(grid))

CanPlaceWord(grid, word, direction, row, col) ==
    IF direction = "across"
    THEN /\ ~(col + Len(word) > GridWidth(grid))
         /\ \A i \in 0..(Len(word) - 1) :
                ~(grid[row][col + i] # EMPTY /\ grid[row][col + i] # word[i + 1])
    ELSE /\ ~(row + Len(word) > GridLen(grid))
         /\ \A i \in 0..(Len(word) - 1) :
                ~(grid[row + i][col] # EMPTY /\ grid[row + i][col] # word[i + 1])

PlaceWordOnGrid(grid, word, direction, row, col) ==
    IF direction = "across"
    THEN [r \in DOMAIN grid |-> [c \in DOMAIN grid[r] |->
            IF r = row /\ c >= col /\ c < col + Len(word)
            THEN word[c - col + 1] ELSE grid[r][c]]]
    ELSE [r \in DOMAIN grid |-> [c \in DOMAIN grid[r] |->
            IF c = col /\ r >= row /\ r < row + Len(word)
            THEN word[r - row + 1] ELSE grid[r][c]]]

\* One entry of self.placed_words: the key and its (row, col, direction)
Entry(word, row, col, direction) ==
    [word |-> word, row |-> row, col |-> col, direction |-> direction]

\* Candidates with the two letter positions mixed up in the anchor
OverlapsWith_MixedOffsets(word, grid, dirs, p) ==
    { pos \in [row : (0 - Len(p.word))..GridLen(grid), col : (0 - Len(p.word))..GridWidth(grid),
               direction : {"across", "down"}] :
        \E i \in 0..(Len(word) - 1), j \in 0..(Len(p.word) - 1) :
            /\ word[i + 1] = p.word[j + 1]
            /\ \/ /\ p.direction = "across"
                  /\ pos.row = p.row - j
                  /\ pos.col = p.col + i
                  /\ pos.direction = "down"
                  /\ dirs[word] = "down"
               \/ /\ p.direction = "down"
                  /\ pos.row = p.row + i
                  /\ pos.col = p.col - j
                  /\ pos.direction = "across"
                  /\ dirs[word] = "across"
            /\ 0 <= pos.row /\ pos.row < GridLen(grid)
            /\ 0 <= pos.col /\ pos.col < GridWidth(grid)
            /\ CanPlaceWord(grid, word, pos.direction, pos.row, pos.col) }

\* The candidates _find_overlaps returns for one placed word
OverlapsWith(word, grid, dirs, p) ==
    { pos \in [row : (0 - Len(word))..GridLen(grid), col : (0 - Len(word))..GridWidth(grid),
               direction : {"across", "down"}] :
        \E i \in 0..(Len(word) - 1), j \in 0..(Len(p.word) - 1) :
            /\ word[i + 1] = p.word[j + 1]
            /\ \/ /\ p.direction = "across"
                  /\ pos.row = p.row - i
                  /\ pos.col = p.col + j
                  /\ pos.direction = "down"
                  /\ dirs[word] = "down"
               \/ /\ p.direction = "down"
                  /\ pos.row = p.row + j
                  /\ pos.col = p.col - i
                  /\ pos.direction = "across"
                  /\ dirs[word] = "across"
            /\ 0 <= pos.row /\ pos.row < GridLen(grid)
            /\ 0 <= pos.col /\ pos.col < GridWidth(grid)
            /\ CanPlaceWord(grid, word, pos.direction, pos.row, pos.col) }

\* _find_overlaps: the candidates over all placed words (as a set: the caller
\* shuffles the list, so only its elements matter)
FindOverlaps(word, grid, dirs, placed) ==
    UNION { OverlapsWith(word, grid, dirs, placed[k]) : k \in 1..Len(placed) }

\* A scan that leaves out the last row and the last column
FirstFreePosition_SkipsLast(grid, word, direction) ==
    LET legal == { rc \in (0..(GridLen(grid) - 2)) \X (0..(GridWidth(grid) - 2)) :
                     CanPlaceWord(grid, word, direction, rc[1], rc[2]) }
    IN  IF legal = {} THEN {}
        ELSE { CHOOSE rc \in legal :
                 \A o \in legal : rc[1] < o[1] \/ (rc[1] = o[1] /\ rc[2] <= o[2]) }

\* A scan with the two loops exchanged: columns outside, rows inside
FirstFreePosition_ColumnMajor(grid, word, direction) ==
    LET legal == { rc \in (DOMAIN grid) \X (DOMAIN grid[0]) :
                     CanPlaceWord(grid, word, direction, rc[1], rc[2]) }
    IN  IF legal = {} THEN {}
        ELSE { CHOOSE rc \in legal :
                 \A o \in legal : rc[2] < o[2] \/ (rc[2] = o[2] /\ rc[1] <= o[1]) }

\* The first (row, col) in row-major order that passes the legality check
FirstFreePosition(grid, word, direction) ==
    LET legal == { rc \in (DOMAIN grid) \X (DOMAIN grid[0]) :
                     CanPlaceWord(grid, word, direction, rc[1], rc[2]) }
    IN  IF legal = {} THEN {}
        ELSE { CHOOSE rc \in legal :
                 \A o \in legal : rc[1] < o[1] \/ (rc[1] = o[1] /\ rc[2] <= o[2]) }

\* A placement loop that anchors the first word on the centre cell, without
\* the adjustment for the length of the word
PlacementChoices_CentreCell(grid, placed, word, dirs) ==
    LET size == GridLen(grid)
        first == [row |-> size \div 2, col |-> size \div 2, direction |-> dirs[word]]
        byOverlap ==
            IF placed = <<>>
            THEN IF CanPlaceWord(grid, word, first.direction, first.row, first.col)
                 THEN {first} ELSE {}
            ELSE { pos \in FindOverlaps(word, grid, dirs, placed) :
                     CanPlaceWord(grid, word, pos.direction, pos.row, pos.col) }
    IN  IF byOverlap # {} THEN byOverlap
        ELSE { [row |-> rc[1], col |-> rc[2], direction |-> dirs[word]] :
                 rc \in FirstFreePosition(grid, word, dirs[word]) }

\* The positions at which one iteration of the placement loop may put word:
\* the centre for the first word, else any legal overlap candidate (the list
\* is shuffled), else the first free position; empty when the word is dropped.
PlacementChoices(grid, placed, word, dirs) ==
    LET size == GridLen(grid)
        first == IF dirs[word] = "across"
                 THEN [row |-> size \div 2, col |-> (size - Len(word)) \div 2,
                       direction |-> "across"]
                 ELSE [row |-> (size - Len(word)) \div 2, col |-> size \div 2,
                       direction |-> "down"]
        byOverlap ==
            IF placed = <<>>
            THEN IF CanPlaceWord(grid, word, first.direction, first.row, first.col)
                 THEN {first} ELSE {}
            ELSE { pos \in FindOverlaps(word, grid, dirs, placed) :
                     CanPlaceWord(grid, word, pos.direction, pos.row, pos.col) }
    IN  IF byOverlap # {} THEN byOverlap
        ELSE { [row |-> rc[1], col |-> rc[2], direction |-> dirs[word]] :
                 rc \in FirstFreePosition(grid, word, dirs[word]) }

\* The placement loop over words[k..]: every (grid, placed_words) it can end in
RECURSIVE PlaceWords(_, _, _, _, _)
PlaceWords(grid, placed, ws, dirs, k) ==
    IF k > Len(ws) THEN { [grid |-> grid, placed |-> placed] }
    ELSE LET word == ws[k]
             choices == PlacementChoices(grid, placed, word, dirs)
         IN  IF choices = {}
             THEN PlaceWords(grid, placed, ws, dirs, k + 1)
             ELSE UNION { PlaceWords(
                              PlaceWordOnGrid(grid, word, pos.direction, pos.row, pos.col),
                              Append(placed, Entry(word, pos.row, pos.col, pos.direction)),
                              ws, dirs, k + 1) : pos \in choices }

\* _fill_empty_cells: every grid the random fill can produce
EmptyCells(grid) ==
    { rc \in (DOMAIN grid) \X (DOMAIN grid[0]) : grid[rc[1]][rc[2]] = EMPTY }

\* A fill that draws a letter for every cell, empty or not
FillEmptyCells_EveryCell(grid) ==
    { [r \in DOMAIN grid |-> [c \in DOMAIN grid[r] |-> f[<<r, c>>]]] :
      f \in [(DOMAIN grid) \X (DOMAIN grid[0]) -> ascii_uppercase] }

FillEmptyCells(grid) ==
    { [r \in DOMAIN grid |-> [c \in DOMAIN grid[r] |->
          IF grid[r][c] = EMPTY THEN f[<<r, c>>] ELSE grid[r][c]]] :
      f \in [EmptyCells(grid) -> ascii_uppercase] }

\* sorted(words, key=len, reverse=True): stable, longest first
RECURSIVE SortedByLen(_)
SortedByLen(ws) ==
    IF ws = <<>> THEN <<>>
    ELSE LET m == MaxLen(ws)
             i == CHOOSE x \in 1..Len(ws) :
                      Len(ws[x]) = m /\ \A y \in 1..(x - 1) : Len(ws[y]) # m
         IN  <<ws[i]>> \o SortedByLen(SubSeq(ws, 1, i - 1) \o SubSeq(ws, i + 1, Len(ws)))

\* random.sample(word_list, num_words), upper-cased and sorted
SampledWords(wl) ==
    { SortedByLen([i \in 1..num_words |-> Upper(s[i])]) :
        s \in { t \in [1..num_words -> wl] :
                  \A i, j \in 1..num_words : i # j => t[i] # t[j] } }

WordSet(ws) == { ws[i] : i \in 1..Len(ws) }

\* Everything _generate_word_search can return for a dictionary
GenerateWordSearch(wl) ==
    UNION { UNION { UNION {
        { [words |-> ws, directions |-> dirs, grid |-> g, placed |-> res.placed] :
            g \in FillEmptyCells(res.grid) } :
        res \in PlaceWords(CreateEmptyGrid(DetermineInitialGridSize(ws)), <<>>, ws, dirs, 1) } :
        dirs \in [WordSet(ws) -> {"across", "down"}] } :
        ws \in SampledWords(wl) }

PuzzlesBasic == GenerateWordSearch(WordsEnBasic)
PuzzlesEn == GenerateWordSearch(WordsEn)

(***************************************************************************)
(* Guess verification.  A guess is <<start_row, start_col, end_row,        *)
(* end_col>>.                                                              *)
(***************************************************************************)
Min(a, b) == IF a <= b THEN a ELSE b
Max(a, b) == IF a >= b THEN a ELSE b
Abs(a) == IF a >= 0 THEN a ELSE 0 - a

\* _extract_word: the letters on the span, "" for a span that is not straight
ExtractWord(grid, g) ==
    IF g[1] = g[3]
    THEN [i \in 1..(Max(g[2], g[4]) - Min(g[2], g[4]) + 1) |-> grid[g[1]][Min(g[2], g[4]) + i - 1]]
    ELSE IF g[2] = g[4]
    THEN [i \in 1..(Max(g[1], g[3]) - Min(g[1], g[3]) + 1) |-> grid[Min(g[1], g[3]) + i - 1][g[2]]]
    ELSE <<>>

\* A test that anchors the span on its start instead of its smaller end
MatchesPosition_FromStart(word, row, col, direction, g) ==
    IF direction = "across" /\ row = g[1] /\ col = g[2]
    THEN Len(word) = Abs(g[4] - g[2]) + 1
    ELSE IF direction = "down" /\ col = g[2] /\ row = g[1]
    THEN Len(word) = Abs(g[3] - g[1]) + 1
    ELSE FALSE

\* _matches_position: word is the text _check_word extracted from the span
MatchesPosition(word, row, col, direction, g) ==
    IF direction = "across" /\ row = g[1] /\ col = Min(g[2], g[4])
    THEN Len(word) = Abs(g[4] - g[2]) + 1
    ELSE IF direction = "down" /\ col = g[2] /\ row = Min(g[1], g[3])
    THEN Len(word) = Abs(g[3] - g[1]) + 1
    ELSE FALSE

\* A highlight that stops one cell short of the far end
HighlightWord_StopsShort(g) ==
    IF g[1] = g[3]
    THEN { <<g[1], c>> : c \in Min(g[2], g[4])..(Max(g[2], g[4]) - 1) }
    ELSE IF g[2] = g[4]
    THEN { <<r, g[2]>> : r \in Min(g[1], g[3])..(Max(g[1], g[3]) - 1) }
    ELSE {}

\* _highlight_word: the cells it adds
HighlightWord(g) ==
    IF g[1] = g[3]
    THEN { <<g[1], c>> : c \in Min(g[2], g[4])..Max(g[2], g[4]) }
    ELSE IF g[2] = g[4]
    THEN { <<r, g[2]>> : r \in Min(g[1], g[3])..Max(g[1], g[3]) }
    ELSE {}

\* The session fields a guess can change
Session(cw, hl, ia, tries, dr, inv) ==
    [correct_words |-> cw, highlighted_positions |-> hl, incorrect_attempts |-> ia,
     num_incorrect_tries |-> tries, draw |-> dr, invalid_move |-> inv]

\* The loop of _check_word over the placement index from entry k on, for the
\* extracted text word: 0 when no entry matches, else the first that does
RECURSIVE FirstMatch(_, _, _, _)

\* A loop that takes the entry whose text the span spells
FirstMatch_ByLetters(word, placed, g, k) ==
    IF k > Len(placed) THEN 0
    ELSE IF word = placed[k].word
    THEN k
    ELSE FirstMatch(word, placed, g, k + 1)

FirstMatch(word, placed, g, k) ==
    IF k > Len(placed) THEN 0
    ELSE IF MatchesPosition(word, placed[k].row, placed[k].col, placed[k].direction, g)
    THEN k
    ELSE FirstMatch(word, placed, g, k + 1)

\* The two ways out of _check_word, k being the entry found (0 for none)
CheckWordResult(placed, s, g, k) ==
    IF k # 0
    THEN [ret |-> TRUE,
          session |-> [s EXCEPT
              !.correct_words = @ \cup {placed[k].word},
              !.highlighted_positions = @ \cup HighlightWord(g)]]
    ELSE [ret |-> FALSE,
          session |-> [s EXCEPT !.incorrect_attempts = Append(@, g)]]

\* _check_word
CheckWord(grid, placed, s, g) ==
    CheckWordResult(placed, s, g, FirstMatch(ExtractWord(grid, g), placed, g, 1))

InBounds(grid, g) ==
    /\ 0 <= g[1] /\ g[1] < GridLen(grid)
    /\ 0 <= g[2] /\ g[2] < GridWidth(grid)
    /\ 0 <= g[3] /\ g[3] < GridLen(grid)
    /\ 0 <= g[4] /\ g[4] < GridWidth(grid)

\* A test that never finds the guess in incorrect_attempts
AlreadyAttempted_Never(ia, g) == FALSE

\* (start_row, start_col, end_row, end_col) in self.incorrect_attempts
AlreadyAttempted(ia, g) == \E i \in 1..Len(ia) : ia[i] = g

\* The loop of step over the parsed matches, from position k on: it breaks
\* after a guess that is out of bounds, already attempted or incorrect.
\* AfterCheck is the rest of an iteration once _check_word has answered r.
RECURSIVE StepLoop(_, _, _, _, _)
RECURSIVE AfterCheck(_, _, _, _, _)

\* A loop without the test against incorrect_attempts
StepLoop_NoDuplicateTest(grid, placed, s, ms, k) ==
    IF k > Len(ms) THEN s
    ELSE IF ~InBounds(grid, ms[k])
    THEN [s EXCEPT !.invalid_move = TRUE]
    ELSE AfterCheck(grid, placed, ms, k, CheckWord(grid, placed, s, ms[k]))

StepLoop(grid, placed, s, ms, k) ==
    IF k > Len(ms) THEN s
    ELSE IF ~InBounds(grid, ms[k])
    THEN [s EXCEPT !.invalid_move = TRUE]
    ELSE IF AlreadyAttempted(s.incorrect_attempts, ms[k])
    THEN [s EXCEPT !.invalid_move = TRUE]
    ELSE AfterCheck(grid, placed, ms, k, CheckWord(grid, placed, s, ms[k]))

\* An iteration that records an incorrect guess without charging a try
AfterCheck_NoCharge(grid, placed, ms, k, r) ==
    IF ~r.ret
    THEN r.session
    ELSE StepLoop(grid, placed, r.session, ms, k + 1)

\* An iteration that goes on to the next guess after an incorrect one
AfterCheck_NoBreak(grid, placed, ms, k, r) ==
    IF ~r.ret
    THEN StepLoop(grid, placed,
                  [r.session EXCEPT
                      !.num_incorrect_tries = @ - 1,
                      !.draw = IF r.session.num_incorrect_tries - 1 = 0 THEN TRUE ELSE @],
                  ms, k + 1)
    ELSE StepLoop(grid, placed, r.session, ms, k + 1)

AfterCheck(grid, placed, ms, k, r) ==
    IF ~r.ret
    THEN [r.session EXCEPT
             !.num_incorrect_tries = @ - 1,
             !.draw = IF r.session.num_incorrect_tries - 1 = 0 THEN TRUE ELSE @]
    ELSE StepLoop(grid, placed, r.session, ms, k + 1)

\* A test that is content with all words but one
IsGameOver_OneShort(cw, placed) == Cardinality(cw) + 1 >= Len(placed)

\* _is_game_over
IsGameOver(cw, placed) == Cardinality(cw) = Len(placed)

(***************************************************************************)
(* The guesses the player of the model tries.                              *)
(***************************************************************************)
\* The span of n cells from the anchor of entry p along its direction
SpanOf(p, n) ==
    IF p.direction = "across"
    THEN <<p.row, p.col, p.row, p.col + n - 1>>
    ELSE <<p.row, p.col, p.row + n - 1, p.col>>

Reversed(g) == <<g[3], g[4], g[1], g[2]>>

\* The exact span of every placed word; for the first placed word also the
\* exact span in reverse order, the span one cell shorter and the span one
\* cell longer; a diagonal, a corner cell and a span that leaves the grid.
GuessPool(grid, placed) ==
    LET size == GridLen(grid)
        p == placed[1]
    IN  { SpanOf(placed[k], Len(placed[k].word)) : k \in 1..Len(placed) }
        \cup { Reversed(SpanOf(p, Len(p.word))), SpanOf(p, Len(p.word) - 1),
               SpanOf(p, Len(p.word) + 1) }
        \cup { <<0, 0, 1, 1>>, <<size - 1, size - 1, size - 1, size - 1>>,
               <<0, 0, 0, size>> }

\* The guesses that occur together in one action string: two exact spans, a
\* diagonal and a corner cell
MultiPool(grid, placed) ==
    { SpanOf(placed[1], Len(placed[1].word)),
      SpanOf(placed[Len(placed)], Len(placed[Len(placed)].word)),
      <<0, 0, 1, 1>>,
      <<GridLen(grid) - 1, GridLen(grid) - 1, GridLen(grid) - 1, GridLen(grid) - 1>> }

\* set(matches) in some iteration order: no match occurs twice
Distinct(ms) == \A i, j \in 1..Len(ms) : i # j => ms[i] # ms[j]

\* The same span written twice in one action string with different digits
\* ("[0 0 1 1] [00 0 1 1]"): set(matches) compares the strings and keeps
\* both, int() makes them the same guess.  An exact span and a diagonal.
Aliased(grid, placed) ==
    IF MaxGuesses < 2 THEN {}
    ELSE { <<g, g>> : g \in {SpanOf(placed[1], Len(placed[1].word)), <<0, 0, 1, 1>>} }

\* The parsed matches of one action string, in the order the loop visits them
Actions(grid, placed) ==
    {<<>>}
    \cup { <<g>> : g \in GuessPool(grid, placed) }
    \cup UNION { { ms \in [1..n -> MultiPool(grid, placed)] : Distinct(ms) }
                 : n \in 2..MaxGuesses }
    \cup Aliased(grid, placed)

(***************************************************************************)
(* The environment.                                                        *)
(***************************************************************************)
\* No call of _generate_word_search is being followed
NotGenerating == [stage |-> "idle", k |-> 0, grid |-> <<>>, unfilled |-> <<>>, steps |-> <<>>]

\* __init__, for the dictionary wl that words.words returns
ConstructWith(wl) ==
    /\ word_list = wl
    /\ generation = NotGenerating
    /\ words = <<>>
    /\ directions = <<>>
    /\ game_board = <<>>
    /\ placed_words = <<>>
    /\ highlighted_positions = {}
    /\ correct_words = {}
    /\ incorrect_attempts = <<>>
    /\ num_incorrect_tries = InitialTries
    /\ winners = FALSE
    /\ draw = FALSE
    /\ invalid_move = FALSE

\* __init__(hardcore)
Construct(hardcore) == ConstructWith(IF hardcore THEN WordsEn ELSE WordsEnBasic)

\* WordSearchEnv(): hardcore defaults to False
Init == Construct(FALSE)

\* WordSearchEnv(hardcore) for either value of the flag
InitAny == \E hardcore \in BOOLEAN : Construct(hardcore)

Puzzles(wl) == IF wl = WordsEnBasic THEN PuzzlesBasic ELSE PuzzlesEn

\* reset: _generate_word_search, then state.reset
Reset ==
    \E p \in Puzzles(word_list) :
        /\ words' = p.words
        /\ directions' = p.directions
        /\ highlighted_positions' = {}
        /\ correct_words' = {}
        /\ incorrect_attempts' = <<>>
        /\ game_board' = p.grid
        /\ placed_words' = p.placed
        /\ winners' = FALSE
        /\ draw' = FALSE
        /\ invalid_move' = FALSE
        /\ UNCHANGED <<word_list, num_incorrect_tries, generation>>

\* The session as step finds it
CurrentSession ==
    Session(correct_words, highlighted_positions, incorrect_attempts,
            num_incorrect_tries, draw, FALSE)

\* The end of step after the loop: _is_game_over and set_winners
CheckGameOver(s) ==
    [session |-> s,
     winners |-> IF IsGameOver(s.correct_words, placed_words) THEN TRUE ELSE winners]

\* What step leaves behind for an action string whose parsed matches are ms
StepOutcome(ms) ==
    IF ms = <<>>
    THEN [session |-> [CurrentSession EXCEPT !.invalid_move = TRUE], winners |-> winners]
    ELSE CheckGameOver(StepLoop(game_board, placed_words, CurrentSession, ms, 1))

\* A step that marks the highlighted cells on the board itself
Step_MarksBoard(ms) ==
    /\ game_board # <<>>
    /\ Len(incorrect_attempts) < MaxAttempts
    /\ num_incorrect_tries > 0 - MaxOverdraft
    /\ UNCHANGED <<word_list, words, directions, placed_words, generation>>
    /\ \E o \in {StepOutcome(ms)} :
        /\ correct_words' = o.session.correct_words
        /\ highlighted_positions' = o.session.highlighted_positions
        /\ incorrect_attempts' = o.session.incorrect_attempts
        /\ num_incorrect_tries' = o.session.num_incorrect_tries
        /\ draw' = o.session.draw
        /\ invalid_move' = o.session.invalid_move
        /\ winners' = o.winners
        /\ game_board' = [r \in DOMAIN game_board |-> [c \in DOMAIN game_board[r] |->
               IF <<r, c>> \in o.session.highlighted_positions
               THEN "*" ELSE game_board[r][c]]]

\* step, for an action string whose parsed matches are ms
Step(ms) ==
    /\ game_board # <<>>
    /\ Len(incorrect_attempts) < MaxAttempts
    /\ num_incorrect_tries > 0 - MaxOverdraft
    /\ UNCHANGED <<word_list, words, directions, game_board, placed_words, generation>>
    /\ \E o \in {StepOutcome(ms)} :
        /\ correct_words' = o.session.correct_words
        /\ highlighted_positions' = o.session.highlighted_positions
        /\ incorrect_attempts' = o.session.incorrect_attempts
        /\ num_incorrect_tries' = o.session.num_incorrect_tries
        /\ draw' = o.session.draw
        /\ invalid_move' = o.session.invalid_move
        /\ winners' = o.winners

TakeStep ==
    /\ game_board # <<>>
    /\ \E ms \in Actions(game_board, placed_words) : Step(ms)

Next == Reset \/ TakeStep

\* A default environment that is reset and played
Spec == Init /\ [][Next]_vars

\* The first reset of an environment
FirstReset == game_board = <<>> /\ Reset

NextEpisode == FirstReset \/ TakeStep

\* A default environment that is reset once and played: one episode
SpecEpisode == Init /\ [][NextEpisode]_vars

NextGen == Reset

\* An environment of either mode that is only reset
SpecGen == InitAny /\ [][NextGen]_vars

(***************************************************************************)
(* The first reset of an environment, followed through the loop of         *)
(* _generate_word_search one iteration at a time.  generation.grid is the  *)
(* local grid; generation.steps records, for every iteration, the word,    *)
(* the grid and the index it found, the overlap candidates, the position   *)
(* taken and the stage that placed the word.                               *)
(***************************************************************************)
\* An environment over any of the dictionaries
InitPlace ==
    \E wl \in {WordsEnBasic, WordsEn, WordsCrowded, WordsCrossing} : ConstructWith(wl)

\* reset up to the placement loop: sampling, directions, the session
\* collections, the empty grid and the empty index
BeginGenerate ==
    /\ generation.stage = "idle"
    /\ \E ws \in SampledWords(word_list) :
       \E dirs \in [WordSet(ws) -> {"across", "down"}] :
           /\ words' = ws
           /\ directions' = dirs
           /\ generation' = [stage |-> "placing", k |-> 1,
                             grid |-> CreateEmptyGrid(DetermineInitialGridSize(ws)),
                             unfilled |-> <<>>, steps |-> <<>>]
    /\ highlighted_positions' = {}
    /\ correct_words' = {}
    /\ incorrect_attempts' = <<>>
    /\ placed_words' = <<>>
    /\ UNCHANGED <<word_list, game_board, num_incorrect_tries, winners, draw, invalid_move>>

\* possible_positions of the iteration (none is computed for the first word)
OverlapCandidates(grid, placed, word, dirs) ==
    IF placed = <<>> THEN {} ELSE FindOverlaps(word, grid, dirs, placed)

\* The stage of the iteration that places word: the centre, an overlap
\* candidate or the row-major scan; "dropped" when none does
PlacedBy(grid, placed, word, dirs) ==
    LET size == GridLen(grid)
        centre == IF dirs[word] = "across"
                  THEN CanPlaceWord(grid, word, "across", size \div 2, (size - Len(word)) \div 2)
                  ELSE CanPlaceWord(grid, word, "down", (size - Len(word)) \div 2, size \div 2)
    IN  IF placed = <<>> /\ centre THEN "centre"
        ELSE IF placed # <<>> /\ \E pos \in FindOverlaps(word, grid, dirs, placed) :
                    CanPlaceWord(grid, word, pos.direction, pos.row, pos.col)
        THEN "overlap"
        ELSE IF FirstFreePosition(grid, word, dirs[word]) # {} THEN "scan"
        ELSE "dropped"

\* What generation.steps keeps of one iteration
Iteration(word, grid, placed, dirs, pos) ==
    [word |-> word, grid |-> grid, placed |-> placed,
     candidates |-> OverlapCandidates(grid, placed, word, dirs),
     how |-> PlacedBy(grid, placed, word, dirs), pos |-> pos]

NoPosition == [row |-> 0 - 1, col |-> 0 - 1, direction |-> "none"]

\* One iteration of the placement loop, for words[generation.k]
PlaceNextWord ==
    /\ generation.stage = "placing"
    /\ generation.k <= Len(words)
    /\ \E word \in {words[generation.k]} :
       \E choices \in {PlacementChoices(generation.grid, placed_words, word, directions)} :
           IF choices = {}
           THEN /\ placed_words' = placed_words
                /\ generation' = [generation EXCEPT
                       !.k = @ + 1,
                       !.steps = Append(@, Iteration(word, generation.grid, placed_words,
                                                     directions, NoPosition))]
           ELSE \E pos \in choices :
                /\ placed_words' = Append(placed_words,
                                          Entry(word, pos.row, pos.col, pos.direction))
                /\ generation' = [generation EXCEPT
                       !.k = @ + 1,
                       !.grid = PlaceWordOnGrid(@, word, pos.direction, pos.row, pos.col),
                       !.steps = Append(@, Iteration(word, generation.grid, placed_words,
                                                     directions, pos))]
    /\ UNCHANGED <<word_list, words, directions, game_board, highlighted_positions,
                   correct_words, incorrect_attempts, num_incorrect_tries, winners,
                   draw, invalid_move>>

\* _fill_empty_cells, once the loop is through
FillGrid ==
    /\ generation.stage = "placing"
    /\ generation.k > Len(words)
    /\ \E filled \in FillEmptyCells(generation.grid) :
           generation' = [generation EXCEPT
               !.stage = "filled", !.unfilled = generation.grid, !.grid = filled]
    /\ UNCHANGED <<word_list, words, directions, game_board, placed_words,
                   highlighted_positions, correct_words, incorrect_attempts,
                   num_incorrect_tries, winners, draw, invalid_move>>

\* The return of _generate_word_search and the rest of reset
FinishReset ==
    /\ generation.stage = "filled"
    /\ game_board' = generation.grid
    /\ generation' = [generation EXCEPT !.stage = "done"]
    /\ winners' = FALSE
    /\ draw' = FALSE
    /\ invalid_move' = FALSE
    /\ UNCHANGED <<word_list, words, directions, placed_words, highlighted_positions,
                   correct_words, incorrect_attempts, num_incorrect_tries>>

NextPlace == BeginGenerate \/ PlaceNextWord \/ FillGrid \/ FinishReset

\* The first reset of an environment, iteration by iteration
SpecPlace == InitPlace /\ [][NextPlace]_vars

(***************************************************************************)
(* Properties.                                                             *)
(***************************************************************************)
\* The cells of the span are exactly the cells entry p occupies
SpanIsWord(p, g) ==
    \/ /\ g[1] = g[3] /\ p.direction = "across"
       /\ p.row = g[1] /\ p.col = Min(g[2], g[4])
       /\ Len(p.word) = Abs(g[4] - g[2]) + 1
    \/ /\ g[2] = g[4] /\ p.direction = "down"
       /\ p.col = g[2] /\ p.row = Min(g[1], g[3])
       /\ Len(p.word) = Abs(g[3] - g[1]) + 1

ExactSpans(p) == { SpanOf(p, Len(p.word)), Reversed(SpanOf(p, Len(p.word))) }

IsDiagonal(g) == g[1] # g[3] /\ g[2] # g[4]

\* C1: a step whose guess is the exact span of a placed word, in either
\* order, is answered true by _check_word and leaves that word in
\* correct_words.
C1_ExactSpanFindsItsWord ==
    [][ game_board # <<>> =>
        \A k \in 1..Len(placed_words) : \A g \in ExactSpans(placed_words[k]) :
            Step(<<g>>) =>
                /\ CheckWord(game_board, placed_words, CurrentSession, g).ret
                /\ placed_words[k].word \in correct_words' ]_vars

\* C2: a step whose guess is in bounds and is the exact span of no placed
\* word (for one, a span from a word's anchor that is shorter or longer than
\* the word) is answered false and adds nothing to correct_words.
C2_OnlyExactSpansMatch ==
    [][ game_board # <<>> =>
        \A g \in GuessPool(game_board, placed_words) :
            ( /\ InBounds(game_board, g)
              /\ \A k \in 1..Len(placed_words) : ~SpanIsWord(placed_words[k], g)
              /\ Step(<<g>>) ) =>
                /\ ~CheckWord(game_board, placed_words, CurrentSession, g).ret
                /\ correct_words' = correct_words ]_vars

VerifiedIncorrect(s, g) ==
    /\ InBounds(game_board, g)
    /\ ~AlreadyAttempted(s.incorrect_attempts, g)
    /\ ~CheckWord(game_board, placed_words, s, g).ret

\* The guess is in bounds and new, and the verifier accepts it
VerifiedCorrect(g) ==
    /\ InBounds(game_board, g)
    /\ ~AlreadyAttempted(incorrect_attempts, g)
    /\ CheckWord(game_board, placed_words, CurrentSession, g).ret

\* Session after is session before with one try less and g appended to the
\* log, and with the same words found and the same cells highlighted
CostsOneTry(before, after, g) ==
    /\ after.num_incorrect_tries = before.num_incorrect_tries - 1
    /\ after.incorrect_attempts = Append(before.incorrect_attempts, g)
    /\ after.correct_words = before.correct_words
    /\ after.highlighted_positions = before.highlighted_positions

\* C4: in every state, a step whose guess is verified incorrect (in bounds,
\* not yet recorded, rejected by the verifier) lowers num_incorrect_tries by
\* exactly 1, appends exactly that guess to the end of incorrect_attempts and
\* leaves correct_words and highlighted_positions alone; a verified-incorrect
\* guess that follows a correct guess of the same action does the same to the
\* session the correct guess left.
C4_IncorrectGuessCostsOneTry ==
    game_board # <<>> =>
        \A ms \in Actions(game_board, placed_words) :
            /\ (Len(ms) >= 1 /\ VerifiedIncorrect(CurrentSession, ms[1])) =>
                   CostsOneTry(CurrentSession, StepOutcome(ms).session, ms[1])
            /\ ( /\ Len(ms) = 2
                 /\ VerifiedCorrect(ms[1])
                 /\ VerifiedIncorrect(StepOutcome(<<ms[1]>>).session, ms[2]) ) =>
                   CostsOneTry(StepOutcome(<<ms[1]>>).session, StepOutcome(ms).session, ms[2])

C4_Witness ==
    /\ Len(incorrect_attempts) = 1
    /\ num_incorrect_tries = InitialTries - 1
    /\ correct_words # {}
    /\ ~invalid_move

\* C5: in every episode set_draw has been called exactly if the episode has
\* recorded as many incorrect guesses as the budget.
C5_DrawnWhenBudgetOfEpisodeSpent ==
    game_board # <<>> => (draw <=> Len(incorrect_attempts) >= InitialTries)

\* C6: every reset leaves num_incorrect_tries at the budget and
\* correct_words, highlighted_positions and incorrect_attempts empty.
C6_ResetRestoresSession ==
    [][ Reset =>
        /\ num_incorrect_tries' = InitialTries
        /\ correct_words' = {}
        /\ highlighted_positions' = {}
        /\ incorrect_attempts' = <<>> ]_vars

\* C7: once set_winners or set_draw has been called in the episode, a step
\* changes none of num_incorrect_tries, correct_words, highlighted_positions
\* and incorrect_attempts and signals no further outcome.
C7_TerminalStatesAcceptNoGuess ==
    [][ ((winners \/ draw) /\ TakeStep) =>
        UNCHANGED <<num_incorrect_tries, correct_words, highlighted_positions,
                    incorrect_attempts, winners, draw>> ]_vars

\* C8: a step whose guess is in bounds and neither horizontal nor vertical
\* is an invalid move: num_incorrect_tries and incorrect_attempts stay.
C8_DiagonalGuessIsInvalidMove ==
    [][ game_board # <<>> =>
        \A g \in GuessPool(game_board, placed_words) :
            (InBounds(game_board, g) /\ IsDiagonal(g) /\ Step(<<g>>)) =>
                /\ invalid_move'
                /\ num_incorrect_tries' = num_incorrect_tries
                /\ incorrect_attempts' = incorrect_attempts ]_vars

\* Session after is session before, marked as an invalid move
OnlyMarkedInvalid(before, after) ==
    /\ after.invalid_move
    /\ after.num_incorrect_tries = before.num_incorrect_tries
    /\ after.incorrect_attempts = before.incorrect_attempts
    /\ after.correct_words = before.correct_words
    /\ after.highlighted_positions = before.highlighted_positions

Rejected(s, g) ==
    ~InBounds(game_board, g) \/ AlreadyAttempted(s.incorrect_attempts, g)

\* C9: in every state, a step whose guess has a coordinate outside the grid
\* or is already in incorrect_attempts marks the move invalid and leaves
\* num_incorrect_tries, incorrect_attempts, correct_words and
\* highlighted_positions alone; such a guess after a correct guess of the same
\* action does the same to the session the correct guess left.
C9_RejectedGuessChangesNothing ==
    game_board # <<>> =>
        \A ms \in Actions(game_board, placed_words) :
            /\ (Len(ms) >= 1 /\ Rejected(CurrentSession, ms[1])) =>
                   OnlyMarkedInvalid(CurrentSession, StepOutcome(ms).session)
            /\ ( /\ Len(ms) = 2
                 /\ VerifiedCorrect(ms[1])
                 /\ Rejected(StepOutcome(<<ms[1]>>).session, ms[2]) ) =>
                   OnlyMarkedInvalid(StepOutcome(<<ms[1]>>).session, StepOutcome(ms).session)

C9_Witness ==
    /\ invalid_move
    /\ incorrect_attempts # <<>>
    /\ correct_words # {}

IsSquare(grid) == \A r \in DOMAIN grid : Cardinality(DOMAIN grid[r]) = GridLen(grid)

\* C10 as stated: the grid is square and its side is 1.5 times the longest
\* word length rounded half up.
C10_SideRoundsHalfUp ==
    game_board # <<>> =>
        /\ IsSquare(game_board)
        /\ GridLen(game_board) = (3 * MaxLen(words) + 1) \div 2

\* C10 as amended: the grid is square and its side is 1.5 times the longest
\* word length rounded to the nearest integer, a tie going to the even one.
C10_SideRoundsHalfEven ==
    game_board # <<>> =>
        /\ IsSquare(game_board)
        /\ Abs(2 * GridLen(game_board) - 3 * MaxLen(words)) <= 1
        /\ (3 * MaxLen(words)) % 2 = 1 => GridLen(game_board) % 2 = 0

C10_Witness ==
    /\ game_board # <<>>
    /\ MaxLen(words) = 3
    /\ GridLen(game_board) = 4

\* The cell of letter i (from 0) of index entry p
CellOf(p, i) == IF p.direction = "across" THEN <<p.row, p.col + i>> ELSE <<p.row + i, p.col>>

\* The cells index entry p occupies
CellsOf(p) == { CellOf(p, i) : i \in 0..(Len(p.word) - 1) }

\* Reading grid from the anchor of p along its direction gives the text of p
ReadsBack(grid, p) ==
    \A i \in 0..(Len(p.word) - 1) :
        /\ CellOf(p, i)[1] \in DOMAIN grid
        /\ CellOf(p, i)[2] \in DOMAIN grid[0]
        /\ grid[CellOf(p, i)[1]][CellOf(p, i)[2]] = p.word[i + 1]

\* Two entries that share a cell imply the same letter there
AgreeOnSharedCells(p, q) ==
    \A i \in 0..(Len(p.word) - 1), j \in 0..(Len(q.word) - 1) :
        CellOf(p, i) = CellOf(q, j) => p.word[i + 1] = q.word[j + 1]

\* C11: after every iteration of the placement loop, after the fill and in
\* the board reset returns, every entry of the placement index reads back
\* from the grid as its word, and two entries that share a cell imply the
\* same letter there.
C11_PlacedWordsReadBack ==
    /\ generation.stage \in {"placing", "filled", "done"} =>
           \A k \in 1..Len(placed_words) :
               /\ ReadsBack(generation.grid, placed_words[k])
               /\ \A m \in 1..Len(placed_words) :
                      AgreeOnSharedCells(placed_words[k], placed_words[m])
    /\ generation.stage = "done" =>
           \A k \in 1..Len(placed_words) : ReadsBack(game_board, placed_words[k])

C11_Witness ==
    /\ generation.stage = "done"
    /\ \E k, m \in 1..Len(placed_words) :
           /\ k < m
           /\ placed_words[k].direction # placed_words[m].direction
           /\ CellsOf(placed_words[k]) \cap CellsOf(placed_words[m]) # {}

\* C12: the fill leaves every cell that held a placed letter as it was, and
\* after the fill no cell holds the empty marker.
C12_FillTouchesOnlyEmptyCells ==
    generation.stage \in {"filled", "done"} =>
        /\ DOMAIN generation.grid = DOMAIN generation.unfilled
        /\ \A r \in DOMAIN generation.unfilled :
               /\ DOMAIN generation.grid[r] = DOMAIN generation.unfilled[r]
               /\ \A c \in DOMAIN generation.unfilled[r] :
                      /\ generation.unfilled[r][c] # EMPTY =>
                             generation.grid[r][c] = generation.unfilled[r][c]
                      /\ generation.grid[r][c] # EMPTY

C12_Witness ==
    /\ generation.stage = "filled"
    /\ \E r \in DOMAIN generation.unfilled : \E c \in DOMAIN generation.unfilled[r] :
           generation.unfilled[r][c] = EMPTY /\ generation.grid[r][c] \in ascii_uppercase
    /\ \E r \in DOMAIN generation.unfilled : \E c \in DOMAIN generation.unfilled[r] :
           generation.unfilled[r][c] \notin {EMPTY} \cup ascii_uppercase

\* C13: a step, whatever its guesses, changes no character of the grid and
\* no entry of the placement index.
C13_StepsLeaveBoardAndIndex ==
    [][ (game_board' = game_board /\ placed_words' = placed_words) \/ ~TakeStep ]_vars

C13_Witness ==
    /\ game_board # <<>>
    /\ highlighted_positions # {}
    /\ \E i \in 1..Len(incorrect_attempts) : IsDiagonal(incorrect_attempts[i])
    /\ invalid_move

OtherContents(grid) ==
    { [r \in DOMAIN grid |-> [c \in DOMAIN grid[r] |-> "Z"]],
      [r \in DOMAIN grid |-> [c \in DOMAIN grid[r] |-> grid[c][r]]] }

\* C16: with the placement index fixed, every in-bounds guess gets the same
\* answer and the same matched word on the board and on any grid of the same
\* size with other letters; and a span that spells a placed word without
\* being that word's span is not matched to that word.
C16_VerdictIgnoresLetters ==
    game_board # <<>> =>
        \A g \in GuessPool(game_board, placed_words) :
            InBounds(game_board, g) =>
                /\ \A other \in OtherContents(game_board) :
                       CheckWord(other, placed_words, CurrentSession, g)
                           = CheckWord(game_board, placed_words, CurrentSession, g)
                /\ \A k \in 1..Len(placed_words) :
                       ( /\ ExtractWord(game_board, g) = placed_words[k].word
                         /\ ~SpanIsWord(placed_words[k], g) ) =>
                           FirstMatch(ExtractWord(game_board, g), placed_words, g, 1) # k

\* The corner cell holds the letter of a one-letter placed word and its
\* guess has been recorded as incorrect
C16_Witness ==
    /\ game_board # <<>>
    /\ \E i \in 1..Len(incorrect_attempts) : \E k \in 1..Len(placed_words) :
           /\ ~IsDiagonal(incorrect_attempts[i])
           /\ ExtractWord(game_board, incorrect_attempts[i]) = placed_words[k].word
    /\ \E other \in OtherContents(game_board) : other # game_board

\* The cells between the two ends of a guess, ends included
SpanCells(g) ==
    { rc \in (Min(g[1], g[3])..Max(g[1], g[3])) \X (Min(g[2], g[4])..Max(g[2], g[4])) : TRUE }

\* C17: in every state, a step whose guess is verified correct adds exactly
\* the cells of the span to highlighted_positions and leaves
\* num_incorrect_tries and incorrect_attempts alone.
C17_CorrectGuessHighlightsItsSpan ==
    game_board # <<>> =>
        \A g \in GuessPool(game_board, placed_words) :
            VerifiedCorrect(g) =>
                \E o \in {StepOutcome(<<g>>).session} :
                    /\ ~IsDiagonal(g)
                    /\ o.highlighted_positions = highlighted_positions \cup SpanCells(g)
                    /\ o.num_incorrect_tries = num_incorrect_tries
                    /\ o.incorrect_attempts = incorrect_attempts

\* Two words have been found without a miss, and all cells of a word of
\* several letters are highlighted
C17_Witness ==
    /\ game_board # <<>>
    /\ Cardinality(correct_words) = 2
    /\ incorrect_attempts = <<>>
    /\ num_incorrect_tries = InitialTries
    /\ \E k \in 1..Len(placed_words) :
           /\ Len(placed_words[k].word) > 1
           /\ CellsOf(placed_words[k]) \subseteq highlighted_positions

\* C18: every highlighted cell is a cell of a placed word that is in
\* correct_words.
C18_HighlightedCellsBelongToFoundWords ==
    game_board # <<>> =>
        highlighted_positions \subseteq
            UNION { CellsOf(placed_words[k]) :
                      k \in { m \in 1..Len(placed_words) :
                                placed_words[m].word \in correct_words } }

\* The (row, col) of grid that pass the legality check for word and direction
LegalPositions(grid, word, direction) ==
    { rc \in (DOMAIN grid) \X (DOMAIN grid[0]) :
        CanPlaceWord(grid, word, direction, rc[1], rc[2]) }

InIndex(word) == \E k \in 1..Len(placed_words) : placed_words[k].word = word

\* C14: the loop processes the sampled words in order, one iteration each,
\* and a processed word is missing from the placement index exactly if no
\* (row, col) of the grid of its iteration passed the legality check for its
\* assigned direction; once generation is through, this holds of every
\* sampled word.
C14_DroppedIffNoLegalPosition ==
    generation.stage \in {"placing", "filled", "done"} =>
        /\ Len(generation.steps) = generation.k - 1
        /\ generation.stage # "placing" => Len(generation.steps) = Len(words)
        /\ \A i \in 1..Len(generation.steps) :
               /\ generation.steps[i].word = words[i]
               /\ ~InIndex(words[i]) <=>
                      LegalPositions(generation.steps[i].grid, words[i],
                                     directions[words[i]]) = {}

\* A word was dropped and a word processed after it was placed
C14_Witness ==
    /\ generation.stage = "done"
    /\ \E i, j \in 1..Len(generation.steps) :
           /\ i < j
           /\ ~InIndex(words[i])
           /\ InIndex(words[j])

\* Candidate cand for word crosses index entry p: the directions differ and
\* some letter of word lands on the cell of an equal letter of p
Crosses(word, cand, p) ==
    /\ p.direction # cand.direction
    /\ \E i \in 0..(Len(word) - 1), j \in 0..(Len(p.word) - 1) :
           /\ word[i + 1] = p.word[j + 1]
           /\ CellOf(Entry(word, cand.row, cand.col, cand.direction), i) = CellOf(p, j)

\* C19: every overlap candidate of every iteration has the word's assigned
\* direction and its anchor inside the grid, and crosses an already placed
\* word of the other direction on a pair of equal letters; a word placed by
\* the overlap stage is placed on one of the candidates and so shares a cell
\* with an already placed word of the other direction.
C19_OverlapCandidatesCross ==
    \A n \in 1..Len(generation.steps) :
        \E s \in {generation.steps[n]} :
            /\ \A cand \in s.candidates :
                   /\ cand.direction = directions[s.word]
                   /\ cand.row \in DOMAIN s.grid
                   /\ cand.col \in DOMAIN s.grid[0]
                   /\ \E k \in 1..Len(s.placed) : Crosses(s.word, cand, s.placed[k])
            /\ s.how = "overlap" =>
                   /\ s.pos \in s.candidates
                   /\ \E k \in 1..Len(s.placed) :
                          /\ s.placed[k].direction # s.pos.direction
                          /\ CellsOf(Entry(s.word, s.pos.row, s.pos.col, s.pos.direction))
                                 \cap CellsOf(s.placed[k]) # {}

\* A word had several overlap candidates and was placed on one of them,
\* away from row 0 and column 0
C19_Witness ==
    \E n \in 1..Len(generation.steps) :
        /\ generation.steps[n].how = "overlap"
        /\ Cardinality(generation.steps[n].candidates) >= 2
        /\ generation.steps[n].pos.row > 0
        /\ generation.steps[n].pos.col > 0

\* (row, col) a comes before b in row-major order
RowMajorBefore(a, b) == a[1] < b[1] \/ (a[1] = b[1] /\ a[2] < b[2])

\* C20: in every iteration for a word that comes after placed words, has no
\* legal overlap candidate and has a legal position, the word is placed in
\* its assigned direction on a legal position before which, in row-major
\* order, no position is legal.
C20_FallbackTakesFirstLegalPosition ==
    \A n \in 1..Len(generation.steps) :
        \E s \in {generation.steps[n]} :
            ( /\ s.placed # <<>>
              /\ \A cand \in s.candidates :
                     ~CanPlaceWord(s.grid, s.word, cand.direction, cand.row, cand.col)
              /\ LegalPositions(s.grid, s.word, directions[s.word]) # {} ) =>
                /\ InIndex(s.word)
                /\ s.pos.direction = directions[s.word]
                /\ <<s.pos.row, s.pos.col>> \in LegalPositions(s.grid, s.word, directions[s.word])
                /\ \A rc \in LegalPositions(s.grid, s.word, directions[s.word]) :
                       ~RowMajorBefore(rc, <<s.pos.row, s.pos.col>>)

\* A word was placed by the scan behind positions that were not legal, and
\* a legal position lay in an earlier column of a later row
C20_Witness ==
    \E n \in 1..Len(generation.steps) :
        \E s \in {generation.steps[n]} :
            /\ s.how = "scan"
            /\ s.placed # <<>>
            /\ <<s.pos.row, s.pos.col>> # <<0, 0>>
            /\ \E rc \in LegalPositions(s.grid, s.word, directions[s.word]) :
                   rc[2] < s.pos.col

\* The anchor of the first word: the centre line of the grid, the word
\* centred along it
CentreAnchor(size, len, direction) ==
    IF direction = "across"
    THEN [row |-> size \div 2, col |-> (size - len) \div 2, direction |-> "across"]
    ELSE [row |-> (size - len) \div 2, col |-> size \div 2, direction |-> "down"]

\* The cells of a word of len letters at anchor a lie on a size x size grid
FitsGrid(a, len, size) ==
    \A i \in 0..(len - 1) :
        \E cell \in {IF a.direction = "across" THEN <<a.row, a.col + i>>
                                               ELSE <<a.row + i, a.col>>} :
            cell[1] \in 0..(size - 1) /\ cell[2] \in 0..(size - 1)

\* The word of n letters A, B, C, ...
LettersUpTo(n) == SubSeq(UpperLetters, 1, n)

\* C21: the first iteration of the placement loop takes a longest word of
\* the list and places it at the centre anchor of its direction, all of its
\* cells inside the grid; the index is not empty once generation is through;
\* and for a first word of any length up to MaxWordLen, in either direction,
\* the loop has exactly the centre anchor to choose, which fits the grid.
C21_FirstWordIsCentred ==
    /\ Len(generation.steps) >= 1 =>
           \E s \in {generation.steps[1]} :
           \E size \in {GridLen(s.grid)} :
               /\ s.word = words[1]
               /\ Len(s.word) = MaxLen(words)
               /\ s.how = "centre"
               /\ s.pos = CentreAnchor(size, Len(s.word), directions[s.word])
               /\ FitsGrid(s.pos, Len(s.word), size)
               /\ placed_words[1] = Entry(s.word, s.pos.row, s.pos.col, s.pos.direction)
    /\ generation.stage \in {"filled", "done"} => placed_words # <<>>
    /\ \A len \in 1..MaxWordLen : \A direction \in {"across", "down"} :
           \E word \in {LettersUpTo(len)} :
           \E size \in {DetermineInitialGridSize(<<word>>)} :
               /\ PlacementChoices(CreateEmptyGrid(size), <<>>, word,
                                   [w \in {word} |-> direction])
                      = {CentreAnchor(size, len, direction)}
               /\ FitsGrid(CentreAnchor(size, len, direction), len, size)

\* Generation is through, and its first word, of odd length on a grid of
\* even side, went down from a cell above the centre row
C21_Witness ==
    /\ generation.stage = "done"
    /\ Len(generation.steps) >= 1
    /\ generation.steps[1].how = "centre"
    /\ generation.steps[1].pos.direction = "down"
    /\ Len(generation.steps[1].word) = 5
    /\ GridLen(game_board) = 8
    /\ placed_words[1].row = 1

\* C22: in every state of every episode num_incorrect_tries is the budget
\* less the number of recorded incorrect guesses, and so lies between 0 and
\* the budget.
C22_TriesAreBudgetLessAttempts ==
    /\ num_incorrect_tries = InitialTries - Len(incorrect_attempts)
    /\ num_incorrect_tries \in 0..InitialTries

\* No tuple occurs twice in the sequence
NoRepeats(seq) == \A i, j \in 1..Len(seq) : i # j => seq[i] # seq[j]

\* C23: incorrect_attempts holds no coordinate tuple twice, in every state
\* and after every step the state allows, an action string with several
\* guesses or with one guess written twice included.
C23_NoAttemptRecordedTwice ==
    /\ NoRepeats(incorrect_attempts)
    /\ game_board # <<>> =>
           \A ms \in Aliased(game_board, placed_words) :
               NoRepeats(StepOutcome(ms).session.incorrect_attempts)

\* The diagonal is on record, the last step was rejected, and the action
\* that carries the diagonal twice is rejected without a second record
C23_Witness ==
    /\ incorrect_attempts = <<<<0, 0, 1, 1>>>>
    /\ invalid_move
    /\ \E ms \in Aliased(game_board, placed_words) :
           /\ ms[1] = <<0, 0, 1, 1>>
           /\ StepOutcome(ms).session.invalid_move
           /\ StepOutcome(ms).session.incorrect_attempts = incorrect_attempts

\* Every guess with all four coordinates on the grid
InBoundsGuesses(grid) ==
    { g \in (DOMAIN grid) \X (DOMAIN grid[0]) \X (DOMAIN grid) \X (DOMAIN grid[0]) :
        InBounds(grid, g) }

\* _check_word answers g and its reversal alike in session s: the same
\* return value, the same word credited and the same cells highlighted
SameVerdict(s, g) ==
    \E a \in {CheckWord(game_board, placed_words, s, g)} :
    \E b \in {CheckWord(game_board, placed_words, s, Reversed(g))} :
        /\ a.ret = b.ret
        /\ a.session.correct_words = b.session.correct_words
        /\ a.session.highlighted_positions = b.session.highlighted_positions
        /\ HighlightWord(g) = HighlightWord(Reversed(g))

\* C24: on every board and index the environment reaches, a guess and its
\* reversal get the same verdict, credit the same placed word and highlight
\* the same cells: for the in-bounds guesses of the pool in every session,
\* and for every in-bounds guess in a session without a recorded guess.
C24_VerdictIsSymmetric ==
    game_board # <<>> =>
        /\ \A g \in GuessPool(game_board, placed_words) :
               InBounds(game_board, g) => SameVerdict(CurrentSession, g)
        /\ (correct_words = {} /\ incorrect_attempts = <<>>) =>
               \A g \in InBoundsGuesses(game_board) : SameVerdict(CurrentSession, g)

\* The first placed word, of more than one letter, is found and the cells
\* of its span read backwards are highlighted
C24_Witness ==
    /\ game_board # <<>>
    /\ Len(placed_words[1].word) > 1
    /\ \E g \in {Reversed(SpanOf(placed_words[1], Len(placed_words[1].word)))} :
           /\ g \in GuessPool(game_board, placed_words)
           /\ g[1] > g[3] \/ g[2] > g[4]
           /\ correct_words = {placed_words[1].word}
           /\ highlighted_positions = HighlightWord(g)
           /\ incorrect_attempts = <<>>

====
